---- MODULE Spec2Model ----
(***************************************************************************)
(* wavefront_rs: the OBJ entity model and its conversion facade            *)
(* (src/obj/entity.rs) and the MTL writer (src/mtl/writer.rs).             *)
(*                                                                         *)
(* Text is a sequence of one-character strings, so that tokens, single     *)
(* spaces and '/' separators are visible to the checks.                    *)
(***************************************************************************)
EXTENDS Integers, Sequences, FiniteSets

VARIABLES res, sink, log, clean

vars == <<res, sink, log, clean>>

(* ------------------------------------------------------------------ *)
(* Bounds                                                              *)
(* ------------------------------------------------------------------ *)

\* longest string payload (content, name, file) of a constructed entity
MaxStrLen == 2
\* most FaceVertex / indices in a constructed Face / Line
MaxVerts == 2
\* most fields after the leading token in a numeric input line
MaxFields == 4
\* most fields after the leading token in a face / path input line
MaxFaceFields == 3
\* most bytes the append-only sink of SinkSpec takes
MaxSinkLen == 12

(* ------------------------------------------------------------------ *)
(* Text helpers                                                        *)
(* ------------------------------------------------------------------ *)

SP == <<" ">>

\* the characters str::split_whitespace treats as separators (ASCII part)
Whitespace == {" ", "\t", "\n"}

IsPrefix(p, s) == Len(p) <= Len(s) /\ SubSeq(s, 1, Len(p)) = p

RECURSIVE Concat(_)
Concat(ss) == IF ss = <<>> THEN <<>> ELSE Head(ss) \o Concat(Tail(ss))

\* [T]::join(sep)
RECURSIVE Join(_, _)
Join(ss, sep) ==
    IF ss = <<>> THEN <<>>
    ELSE IF Len(ss) = 1 THEN Head(ss)
    ELSE Head(ss) \o sep \o Join(Tail(ss), sep)

\* str::split(c): the pieces between the separators, empty pieces kept
RECURSIVE SplitAcc(_, _, _, _)
SplitAcc(s, c, cur, acc) ==
    IF s = <<>> THEN Append(acc, cur)
    ELSE IF Head(s) = c THEN SplitAcc(Tail(s), c, <<>>, Append(acc, cur))
    ELSE SplitAcc(Tail(s), c, Append(cur, Head(s)), acc)

Split(s, c) == SplitAcc(s, c, <<>>, <<>>)

\* str::split_whitespace: the maximal runs of non-whitespace characters
RECURSIVE SplitWsAcc(_, _, _)
SplitWsAcc(s, cur, acc) ==
    IF s = <<>> THEN (IF cur = <<>> THEN acc ELSE Append(acc, cur))
    ELSE IF Head(s) \in Whitespace
         THEN SplitWsAcc(Tail(s), <<>>, IF cur = <<>> THEN acc ELSE Append(acc, cur))
         ELSE SplitWsAcc(Tail(s), Append(cur, Head(s)), acc)

SplitWhitespace(s) == SplitWsAcc(s, <<>>, <<>>)

\* all sequences over S of length at most n
SeqsUpTo(S, n) == UNION {[1..k -> S] : k \in 0..n}

(* ------------------------------------------------------------------ *)
(* Numbers: i64 and f64 with their text conversions                    *)
(* ------------------------------------------------------------------ *)

Digits == <<"0", "1", "2", "3", "4", "5", "6", "7", "8", "9">>

DigitChars == {Digits[i] : i \in 1..10}

DigitVal(c) == CHOOSE d \in 0..9 : Digits[d + 1] = c

\* decimal digits of a natural number, most significant first
RECURSIVE NatText(_)
NatText(n) == IF n < 10 THEN <<Digits[n + 1]>> ELSE NatText(n \div 10) \o <<Digits[(n % 10) + 1]>>

RECURSIVE DigitsVal(_, _)
DigitsVal(s, acc) == IF s = <<>> THEN acc ELSE DigitsVal(Tail(s), acc * 10 + DigitVal(Head(s)))

AllDigits(s) == \A i \in 1..Len(s) : s[i] \in DigitChars

Ok(v) == [ok |-> TRUE, v |-> v]
\* a failed Result: the value slot is unused
Err(why) == [ok |-> FALSE, why |-> why]

\* Display for i64
I64Display(n) == IF n < 0 THEN <<"-">> \o NatText(-n) ELSE NatText(n)

\* i64::from_str: an optional sign, then at least one digit, nothing else
I64Parse(s) ==
    LET body == IF s # <<>> /\ Head(s) \in {"+", "-"} THEN Tail(s) ELSE s
        neg == s # <<>> /\ Head(s) = "-"
    IN IF body = <<>> \/ ~AllDigits(body) THEN Err("ParseIntError")
       ELSE Ok(IF neg THEN -DigitsVal(body, 0) ELSE DigitsVal(body, 0))

\* f64 values: a finite decimal m / 10^s (normalised), an infinity, or NaN
NaN == [k |-> "nan", m |-> 0, s |-> 0]
Inf(sign) == [k |-> "inf", m |-> sign, s |-> 0]

RECURSIVE Fin(_, _)
Fin(m, s) == IF s > 0 /\ m % 10 = 0 THEN Fin(m \div 10, s - 1) ELSE [k |-> "fin", m |-> m, s |-> s]

\* f64's PartialEq: NaN equals nothing, itself included
F64Eq(a, b) == a.k # "nan" /\ b.k # "nan" /\ a = b

RECURSIVE Zeros(_)
Zeros(n) == IF n <= 0 THEN <<>> ELSE <<"0">> \o Zeros(n - 1)

\* Display for f64: shortest decimal, no exponent, "1" for 1.0
F64Display(v) ==
    IF v.k = "nan" THEN <<"N", "a", "N">>
    ELSE IF v.k = "inf" THEN (IF v.m < 0 THEN <<"-">> ELSE <<>>) \o <<"i", "n", "f">>
    ELSE LET a == IF v.m < 0 THEN -v.m ELSE v.m
             raw == NatText(a)
             ds == Zeros(v.s + 1 - Len(raw)) \o raw
             ip == SubSeq(ds, 1, Len(ds) - v.s)
             fp == SubSeq(ds, Len(ds) - v.s + 1, Len(ds))
         IN (IF v.m < 0 THEN <<"-">> ELSE <<>>) \o ip \o (IF v.s = 0 THEN <<>> ELSE <<".">> \o fp)

\* f64::from_str on the decimal forms without exponent: [sign] digits [. digits],
\* [sign] . digits, and the special spellings of NaN and infinity
F64Parse(s) ==
    LET signed == s # <<>> /\ Head(s) \in {"+", "-"}
        neg == s # <<>> /\ Head(s) = "-"
        body == IF signed THEN Tail(s) ELSE s
        parts == Split(body, ".")
        ip == parts[1]
        fp == IF Len(parts) = 2 THEN parts[2] ELSE <<>>
        mag == DigitsVal(ip \o fp, 0)
    IN IF body \in {<<"N", "a", "N">>, <<"n", "a", "n">>} THEN Ok(NaN)
       ELSE IF body = <<"i", "n", "f">> THEN Ok(Inf(IF neg THEN -1 ELSE 1))
       ELSE IF Len(parts) > 2 \/ ip \o fp = <<>> \/ ~AllDigits(ip \o fp) THEN Err("ParseFloatError")
       ELSE Ok(Fin(IF neg THEN -mag ELSE mag, Len(fp)))

(* ------------------------------------------------------------------ *)
(* OBJ entity model (src/obj/entity.rs)                                *)
(* ------------------------------------------------------------------ *)

\* Option<i64> and Option<f64>
NoneI == [some |-> FALSE, v |-> 0]
SomeI(n) == [some |-> TRUE, v |-> n]
NoneF == [some |-> FALSE, v |-> Fin(0, 0)]
SomeF(x) == [some |-> TRUE, v |-> x]

\* FaceVertex::new2 and FaceVertex::new
new2(vertex, normal, texture) == [vertex |-> vertex, normal |-> normal, texture |-> texture]
new(vertex) == new2(vertex, NoneI, NoneI)

\* the variants of obj::entity::Entity
Comment(content) == [tag |-> "Comment", content |-> content]
Object(name) == [tag |-> "Object", name |-> name]
Group(name) == [tag |-> "Group", name |-> name]
SmoothingGroup(name) == [tag |-> "SmoothingGroup", name |-> name]
Mtllib(name) == [tag |-> "Mtllib", name |-> name]
Usemtl(name) == [tag |-> "Usemtl", name |-> name]
Vertex(x, y, z, w) == [tag |-> "Vertex", x |-> x, y |-> y, z |-> z, w |-> w]
VertexNormal(x, y, z) == [tag |-> "VertexNormal", x |-> x, y |-> y, z |-> z]
VertexTexture(x, y, z) == [tag |-> "VertexTexture", x |-> x, y |-> y, z |-> z]
Face(vertices) == [tag |-> "Face", vertices |-> vertices]
Line(vertices) == [tag |-> "Line", vertices |-> vertices]

ObjVariants ==
    {"Comment", "Object", "Group", "SmoothingGroup", "Mtllib", "Usemtl",
     "Vertex", "VertexNormal", "VertexTexture", "Face", "Line"}

ObjTokenMutC5(tag) ==
    CASE tag = "Comment" -> <<"#">>
      [] tag = "Object" -> <<"o">>
      [] tag = "Group" -> <<"g">>
      [] tag = "SmoothingGroup" -> <<"s">>
      [] tag = "Mtllib" -> <<"m", "t", "l", "l", "i", "b">>
      [] tag = "Usemtl" -> <<"u", "s", "e", "m", "t", "l">>
      [] tag = "Vertex" -> <<"v">>
      [] tag = "VertexNormal" -> <<"v">>
      [] tag = "VertexTexture" -> <<"v", "t">>
      [] tag = "Face" -> <<"f">>
      [] tag = "Line" -> <<"l">>

ObjTokenMutC7(tag) ==
    CASE tag = "Comment" -> <<"#">>
      [] tag = "Object" -> <<"o">>
      [] tag = "Group" -> <<"g">>
      [] tag = "SmoothingGroup" -> <<"s">>
      [] tag = "Mtllib" -> <<"m", "t", "l", "l", "i", "b">>
      [] tag = "Usemtl" -> <<"u", "s", "e", "m", "t", "l">>
      [] tag = "Vertex" -> <<"v">>
      [] tag = "VertexNormal" -> <<"v", "n">>
      [] tag = "VertexTexture" -> <<"v", "t">>
      [] tag = "Face" -> <<"f">>
      [] tag = "Line" -> <<"p">>

\* Entity::token, by variant
ObjToken(tag) ==
    CASE tag = "Comment" -> <<"#">>
      [] tag = "Object" -> <<"o">>
      [] tag = "Group" -> <<"g">>
      [] tag = "SmoothingGroup" -> <<"s">>
      [] tag = "Mtllib" -> <<"m", "t", "l", "l", "i", "b">>
      [] tag = "Usemtl" -> <<"u", "s", "e", "m", "t", "l">>
      [] tag = "Vertex" -> <<"v">>
      [] tag = "VertexNormal" -> <<"v", "n">>
      [] tag = "VertexTexture" -> <<"v", "t">>
      [] tag = "Face" -> <<"f">>
      [] tag = "Line" -> <<"l">>

\* e.token()
token(e) == ObjToken(e.tag)

OptFEq(a, b) == a.some = b.some /\ (a.some => F64Eq(a.v, b.v))

\* #[derive(PartialEq)] for FaceVertex
FaceVertexEq(a, b) == a.vertex = b.vertex /\ a.normal = b.normal /\ a.texture = b.texture

\* #[derive(PartialEq)] for Entity: same variant, fields pairwise equal
EntityEq(a, b) ==
    /\ a.tag = b.tag
    /\ CASE a.tag = "Comment" -> a.content = b.content
         [] a.tag \in {"Object", "Group", "SmoothingGroup", "Mtllib", "Usemtl"} -> a.name = b.name
         [] a.tag = "Vertex" -> F64Eq(a.x, b.x) /\ F64Eq(a.y, b.y) /\ F64Eq(a.z, b.z) /\ OptFEq(a.w, b.w)
         [] a.tag = "VertexNormal" -> F64Eq(a.x, b.x) /\ F64Eq(a.y, b.y) /\ F64Eq(a.z, b.z)
         [] a.tag = "VertexTexture" -> F64Eq(a.x, b.x) /\ F64Eq(a.y, b.y) /\ OptFEq(a.z, b.z)
         [] a.tag = "Face" ->
              /\ Len(a.vertices) = Len(b.vertices)
              /\ \A i \in 1..Len(a.vertices) : FaceVertexEq(a.vertices[i], b.vertices[i])
         [] a.tag = "Line" -> a.vertices = b.vertices

(* ------------------------------------------------------------------ *)
(* MTL entity model (mtl::entity, used by src/mtl/writer.rs)           *)
(* ------------------------------------------------------------------ *)

MtlStringVariants ==
    {"Comment", "MaterialName", "TextureMapAmbient", "TextureMapDiffuse",
     "TextureMapSpecular", "TextureMapHighlight", "TextureMapAlpha", "BumpMap",
     "DisplacementMap", "StencilDecalTextureMap", "SphericalReflectionMap"}

MtlColorVariants == {"AmbientColor", "DiffuseColor", "SpecularColor", "TransmissionFilterColorRGB"}

MtlValueVariants == {"SpecularHighlights", "OpticalDensity", "Dissolve", "InvertedDissolve"}

MtlVariants == MtlStringVariants \cup MtlColorVariants \cup MtlValueVariants \cup {"Illum"}

\* the string payload is called content, name or file in the source; one field here
MtlString(tag, text) == [fam |-> "mtl", tag |-> tag, text |-> text]
MtlColor(tag, r, g, b) == [fam |-> "mtl", tag |-> tag, r |-> r, g |-> g, b |-> b]
MtlValue(tag, value) == [fam |-> "mtl", tag |-> tag, value |-> value]
Illum(mode) == [fam |-> "mtl", tag |-> "Illum", mode |-> mode]

\* the illumination models of the MTL format, by integer code
IllumCodes == 0..10

\* mtl Entity::token, by variant
MtlToken(tag) ==
    CASE tag = "Comment" -> <<"#">>
      [] tag = "MaterialName" -> <<"n", "e", "w", "m", "t", "l">>
      [] tag = "AmbientColor" -> <<"K", "a">>
      [] tag = "DiffuseColor" -> <<"K", "d">>
      [] tag = "SpecularColor" -> <<"K", "s">>
      [] tag = "SpecularHighlights" -> <<"N", "s">>
      [] tag = "OpticalDensity" -> <<"N", "i">>
      [] tag = "Dissolve" -> <<"d">>
      [] tag = "InvertedDissolve" -> <<"T", "r">>
      [] tag = "Illum" -> <<"i", "l", "l", "u", "m">>
      [] tag = "TextureMapAmbient" -> <<"m", "a", "p", "_", "K", "a">>
      [] tag = "TextureMapDiffuse" -> <<"m", "a", "p", "_", "K", "d">>
      [] tag = "TransmissionFilterColorRGB" -> <<"T", "f">>
      [] tag = "TextureMapSpecular" -> <<"m", "a", "p", "_", "K", "s">>
      [] tag = "TextureMapHighlight" -> <<"m", "a", "p", "_", "N", "s">>
      [] tag = "TextureMapAlpha" -> <<"m", "a", "p", "_", "d">>
      [] tag = "BumpMap" -> <<"b", "u", "m", "p">>
      [] tag = "DisplacementMap" -> <<"d", "i", "s", "p">>
      [] tag = "StencilDecalTextureMap" -> <<"d", "e", "c", "a", "l">>
      [] tag = "SphericalReflectionMap" -> <<"r", "e", "f", "l">>

\* IlluminationMode's to_string: the integer code
ModeToString(mode) == I64Display(mode)

\* #[derive(PartialEq)] for the mtl Entity
MtlEntityEq(a, b) ==
    /\ a.tag = b.tag
    /\ CASE a.tag \in MtlStringVariants -> a.text = b.text
         [] a.tag \in MtlColorVariants -> F64Eq(a.r, b.r) /\ F64Eq(a.g, b.g) /\ F64Eq(a.b, b.b)
         [] a.tag \in MtlValueVariants -> F64Eq(a.value, b.value)
         [] a.tag = "Illum" -> a.mode = b.mode

(* ------------------------------------------------------------------ *)
(* MTL writer (src/mtl/writer.rs)                                      *)
(* ------------------------------------------------------------------ *)

Fmt2NoSpace(tok, a) == tok \o a

Fmt2Swapped(tok, a) == a \o SP \o tok

\* format!("{} {}", token, a)
Fmt2(tok, a) == tok \o SP \o a

\* format!("{} {} {} {}", token, a, b, c)
Fmt4(tok, a, b, c) == tok \o SP \o a \o SP \o b \o SP \o c

\* the bytes Writer::write hands to write_all for entity e: the match of safecall
MtlFormat(e) ==
    CASE e.tag = "Comment" -> Fmt2(MtlToken(e.tag), e.text)
      [] e.tag = "MaterialName" -> Fmt2(MtlToken(e.tag), e.text)
      [] e.tag = "AmbientColor" -> Fmt4(MtlToken(e.tag), F64Display(e.r), F64Display(e.g), F64Display(e.b))
      [] e.tag = "DiffuseColor" -> Fmt4(MtlToken(e.tag), F64Display(e.r), F64Display(e.g), F64Display(e.b))
      [] e.tag = "SpecularColor" -> Fmt4(MtlToken(e.tag), F64Display(e.r), F64Display(e.g), F64Display(e.b))
      [] e.tag = "SpecularHighlights" -> Fmt2(MtlToken(e.tag), F64Display(e.value))
      [] e.tag = "OpticalDensity" -> Fmt2(MtlToken(e.tag), F64Display(e.value))
      [] e.tag = "Dissolve" -> Fmt2(MtlToken(e.tag), F64Display(e.value))
      [] e.tag = "InvertedDissolve" -> Fmt2(MtlToken(e.tag), F64Display(e.value))
      [] e.tag = "Illum" -> Fmt2(MtlToken(e.tag), ModeToString(e.mode))
      [] e.tag = "TextureMapAmbient" -> Fmt2(MtlToken(e.tag), e.text)
      [] e.tag = "TextureMapDiffuse" -> Fmt2(MtlToken(e.tag), e.text)
      [] e.tag = "TransmissionFilterColorRGB" -> Fmt4(MtlToken(e.tag), F64Display(e.r), F64Display(e.g), F64Display(e.b))
      [] e.tag = "TextureMapSpecular" -> Fmt2(MtlToken(e.tag), e.text)
      [] e.tag = "TextureMapHighlight" -> Fmt2(MtlToken(e.tag), e.text)
      [] e.tag = "TextureMapAlpha" -> Fmt2(MtlToken(e.tag), e.text)
      [] e.tag = "BumpMap" -> Fmt2(MtlToken(e.tag), e.text)
      [] e.tag = "DisplacementMap" -> Fmt2(MtlToken(e.tag), e.text)
      [] e.tag = "StencilDecalTextureMap" -> Fmt2(MtlToken(e.tag), e.text)
      [] e.tag = "SphericalReflectionMap" -> Fmt2(MtlToken(e.tag), e.text)

WriteAllNewline(w, bytes, n) ==
    IF n = Len(bytes) THEN [ok |-> TRUE, buf |-> w \o bytes \o <<"\n">>]
    ELSE [ok |-> FALSE, buf |-> w \o SubSeq(bytes, 1, n)]

\* Write::write_all on a sink holding w that takes n of the bytes before it
\* rejects (n = Len(bytes): it takes them all): the sink afterwards, and Ok or Err
WriteAll(w, bytes, n) ==
    IF n = Len(bytes) THEN [ok |-> TRUE, buf |-> w \o bytes]
    ELSE [ok |-> FALSE, buf |-> w \o SubSeq(bytes, 1, n)]

\* Writer::write: safecall's `?` returns the sink's error, and the final match
\* wraps it in a WriterError carrying err.to_string()
MtlWrite(w, e, n) ==
    LET r == WriteAll(w, MtlFormat(e), n)
    IN [buf |-> r.buf,
        ret |-> IF r.ok THEN [ok |-> TRUE, kind |-> "unit", cause |-> "none"]
                ELSE [ok |-> FALSE, kind |-> "WriterError", cause |-> "io"]]

(* ------------------------------------------------------------------ *)
(* OBJ writer (obj::format_writer::FormatWriter, called by to_string)  *)
(* ------------------------------------------------------------------ *)

OptFText(o) == IF o.some THEN SP \o F64Display(o.v) ELSE <<>>

\* one FaceVertex: vertex, vertex/normal, vertex//texture, vertex/normal/texture
\* (the order of the examples on Entity::Face); absent fields are left out and a
\* bare vertex has no trailing '/'
FaceVertexText(fv) ==
    I64Display(fv.vertex)
    \o (IF fv.normal.some \/ fv.texture.some THEN <<"/">> ELSE <<>>)
    \o (IF fv.normal.some THEN I64Display(fv.normal.v) ELSE <<>>)
    \o (IF fv.texture.some THEN <<"/">> \o I64Display(fv.texture.v) ELSE <<>>)

\* the line FormatWriter::write emits for e: the token, then the fields,
\* single-space separated, no line terminator
ObjFormat(e) ==
    CASE e.tag = "Comment" -> Fmt2(token(e), e.content)
      [] e.tag \in {"Object", "Group", "SmoothingGroup", "Mtllib", "Usemtl"} -> Fmt2(token(e), e.name)
      [] e.tag = "Vertex" ->
           Fmt4(token(e), F64Display(e.x), F64Display(e.y), F64Display(e.z)) \o OptFText(e.w)
      [] e.tag = "VertexNormal" -> Fmt4(token(e), F64Display(e.x), F64Display(e.y), F64Display(e.z))
      [] e.tag = "VertexTexture" ->
           token(e) \o SP \o F64Display(e.x) \o SP \o F64Display(e.y) \o OptFText(e.z)
      [] e.tag = "Face" ->
           Fmt2(token(e), Join([i \in 1..Len(e.vertices) |-> FaceVertexText(e.vertices[i])], SP))
      [] e.tag = "Line" ->
           Fmt2(token(e), Join([i \in 1..Len(e.vertices) |-> I64Display(e.vertices[i])], SP))

\* FormatWriter::write on a sink holding w: Ok, or a failure after n bytes
FormatWrite(w, e, n) ==
    LET r == WriteAll(w, ObjFormat(e), n)
    IN [buf |-> r.buf,
        ret |-> IF r.ok THEN [ok |-> TRUE, kind |-> "unit", cause |-> "none"]
                ELSE [ok |-> FALSE, kind |-> "WriterError", cause |-> "io"]]

(* ------------------------------------------------------------------ *)
(* Lexers (obj::read_lexer::ReadLexer and its mtl counterpart)         *)
(* ------------------------------------------------------------------ *)

\* BufRead::read_line: the source up to and including its first line feed
RECURSIVE FirstLine(_)
FirstLine(s) ==
    IF s = <<>> THEN <<>>
    ELSE IF Head(s) = "\n" THEN <<"\n">>
    ELSE <<Head(s)>> \o FirstLine(Tail(s))

\* every token parsed as f64, or the first failure
ParseF64s(ts) ==
    LET rs == [i \in 1..Len(ts) |-> F64Parse(ts[i])]
    IN IF \E i \in 1..Len(ts) : ~rs[i].ok THEN Err("malformed number")
       ELSE Ok([i \in 1..Len(ts) |-> rs[i].v])

\* every token parsed as i64, or the first failure
ParseI64s(ts) ==
    LET rs == [i \in 1..Len(ts) |-> I64Parse(ts[i])]
    IN IF \E i \in 1..Len(ts) : ~rs[i].ok THEN Err("malformed integer")
       ELSE Ok([i \in 1..Len(ts) |-> rs[i].v])

\* an optional sub-field of a face token: present only if non-empty
ParseOptI(parts, i) ==
    IF Len(parts) < i \/ parts[i] = <<>> THEN Ok(NoneI)
    ELSE LET r == I64Parse(parts[i]) IN IF r.ok THEN Ok(SomeI(r.v)) ELSE r

\* one face token: split on '/' into up to three sub-fields (vertex, normal,
\* texture); the vertex is required
ParseFaceVertex(tok) ==
    LET parts == Split(tok, "/")
        v == I64Parse(parts[1])
        n == ParseOptI(parts, 2)
        x == ParseOptI(parts, 3)
    IN IF Len(parts) > 3 THEN Err("too many sub-fields")
       ELSE IF ~v.ok \/ ~n.ok \/ ~x.ok THEN Err("malformed integer")
       ELSE Ok(new2(v.v, n.v, x.v))

ParseFace(ts) ==
    LET rs == [i \in 1..Len(ts) |-> ParseFaceVertex(ts[i])]
    IN IF \E i \in 1..Len(ts) : ~rs[i].ok THEN Err("malformed face vertex")
       ELSE Ok(Face([i \in 1..Len(ts) |-> rs[i].v]))

ObjArityLoose(tag, n) ==
    CASE tag = "Vertex" -> n \in {3, 4}
      [] tag = "VertexNormal" -> n \in {3, 4}
      [] tag = "VertexTexture" -> n \in {2, 3}
      [] OTHER -> TRUE

\* the field counts a variant's grammar takes: v has x, y, z and an optional w,
\* vn exactly x, y, z, vt has x, y and an optional z; a count outside these is
\* the wrong arity
ObjArity(tag, n) ==
    CASE tag = "Vertex" -> n \in {3, 4}
      [] tag = "VertexNormal" -> n = 3
      [] tag = "VertexTexture" -> n \in {2, 3}
      [] OTHER -> TRUE

\* the optional trailing numeric field: present only if an extra token exists
OptAt(xs, i) == IF Len(xs) >= i THEN SomeF(xs[i]) ELSE NoneF

\* the fields of an OBJ line parsed for the variant its leading token selects
ObjFields(tag, rest) ==
    LET fs == ParseF64s(rest)
        is == ParseI64s(rest)
    IN CASE tag = "Comment" -> Ok(Comment(Join(rest, SP)))
         [] tag = "Object" -> Ok(Object(Join(rest, SP)))
         [] tag = "Group" -> Ok(Group(Join(rest, SP)))
         [] tag = "SmoothingGroup" -> Ok(SmoothingGroup(Join(rest, SP)))
         [] tag = "Mtllib" -> Ok(Mtllib(Join(rest, SP)))
         [] tag = "Usemtl" -> Ok(Usemtl(Join(rest, SP)))
         [] tag = "Vertex" ->
              IF ~ObjArity(tag, Len(rest)) THEN Err("wrong arity")
              ELSE IF ~fs.ok THEN fs
              ELSE Ok(Vertex(fs.v[1], fs.v[2], fs.v[3], OptAt(fs.v, 4)))
         [] tag = "VertexNormal" ->
              IF ~ObjArity(tag, Len(rest)) THEN Err("wrong arity")
              ELSE IF ~fs.ok THEN fs
              ELSE Ok(VertexNormal(fs.v[1], fs.v[2], fs.v[3]))
         [] tag = "VertexTexture" ->
              IF ~ObjArity(tag, Len(rest)) THEN Err("wrong arity")
              ELSE IF ~fs.ok THEN fs
              ELSE Ok(VertexTexture(fs.v[1], fs.v[2], OptAt(fs.v, 3)))
         [] tag = "Face" -> ParseFace(rest)
         [] tag = "Line" -> IF is.ok THEN Ok(Line(is.v)) ELSE is

\* ReadLexer::read_line: one line, split on whitespace; the leading token is
\* matched against the token table, the rest parsed by the variant's grammar
ObjLex(input) ==
    LET ts == SplitWhitespace(FirstLine(input))
        tags == {tag \in ObjVariants : ObjToken(tag) = Head(ts)}
    IN IF ts = <<>> THEN Err("empty line")
       ELSE IF tags = {} THEN Err("unknown entity")
       ELSE ObjFields(CHOOSE tag \in tags : TRUE, Tail(ts))

\* the illumination mode: one integer token with a recognised code
ParseIllum(rest) ==
    LET r == I64Parse(rest[1])
    IN IF Len(rest) # 1 THEN Err("wrong arity")
       ELSE IF ~r.ok THEN r
       ELSE IF r.v \notin IllumCodes THEN Err("unknown illumination mode")
       ELSE Ok(Illum(r.v))

MtlFields(tag, rest) ==
    LET fs == ParseF64s(rest)
    IN CASE tag \in MtlStringVariants -> Ok(MtlString(tag, Join(rest, SP)))
         [] tag \in MtlColorVariants ->
              IF Len(rest) # 3 THEN Err("wrong arity")
              ELSE IF ~fs.ok THEN fs
              ELSE Ok(MtlColor(tag, fs.v[1], fs.v[2], fs.v[3]))
         [] tag \in MtlValueVariants ->
              IF Len(rest) # 1 THEN Err("wrong arity")
              ELSE IF ~fs.ok THEN fs
              ELSE Ok(MtlValue(tag, fs.v[1]))
         [] tag = "Illum" -> ParseIllum(rest)

\* the mtl lexer's read_line
MtlLex(input) ==
    LET ts == SplitWhitespace(FirstLine(input))
        tags == {tag \in MtlVariants : MtlToken(tag) = Head(ts)}
    IN IF ts = <<>> THEN Err("empty line")
       ELSE IF tags = {} THEN Err("unknown entity")
       ELSE MtlFields(CHOOSE tag \in tags : TRUE, Tail(ts))

(* ------------------------------------------------------------------ *)
(* Conversion facade (src/obj/entity.rs)                               *)
(* ------------------------------------------------------------------ *)

\* impl ToString for Entity: FormatWriter::write into the String's own bytes
\* through a BufWriter; the Result of the write is discarded and the String
\* returned whatever it was. fw is kept beside the returned text to show what
\* the caller was not told.
to_string(e, n) ==
    LET r == FormatWrite(<<>>, e, n)
    IN [fw |-> r.ret, ret |-> [ok |-> TRUE, kind |-> "String", text |-> r.buf]]

\* impl From<Format> for Entity: read_line(...).unwrap()
from(input) ==
    LET r == ObjLex(input)
    IN IF r.ok THEN [outcome |-> "returned", ok |-> TRUE, v |-> r.v]
       ELSE [outcome |-> "panicked", ok |-> FALSE, why |-> r.why]

\* impl Into<Format> for Entity: self.to_string()
into(e, n) == to_string(e, n).ret

(* ------------------------------------------------------------------ *)
(* Inputs                                                              *)
(* ------------------------------------------------------------------ *)

\* string payloads: letters and spaces
Strs == SeqsUpTo({"a", " "}, MaxStrLen)

\* f64 payloads: 1.0, -0.5 and NaN
F64Pool == {Fin(1, 0), Fin(-5, 1), NaN}

OptF64Pool == {NoneF} \cup {SomeF(x) : x \in F64Pool}

FaceVertexPool ==
    {new(v) : v \in {1, -2}}
    \cup {new2(v, n, x) : v \in {1, -2}, n \in {NoneI, SomeI(3)}, x \in {NoneI, SomeI(12)}}

ObjEntities ==
    {Comment(s) : s \in Strs} \cup {Object(s) : s \in Strs} \cup {Group(s) : s \in Strs}
    \cup {SmoothingGroup(s) : s \in Strs} \cup {Mtllib(s) : s \in Strs}
    \cup {Usemtl(s) : s \in Strs}
    \cup {Vertex(x, y, z, w) : x \in F64Pool, y \in F64Pool, z \in F64Pool, w \in OptF64Pool}
    \cup {VertexNormal(x, y, z) : x \in F64Pool, y \in F64Pool, z \in F64Pool}
    \cup {VertexTexture(x, y, z) : x \in F64Pool, y \in F64Pool, z \in OptF64Pool}
    \cup {Face(vs) : vs \in SeqsUpTo(FaceVertexPool, MaxVerts)}
    \cup {Line(vs) : vs \in SeqsUpTo({1, -2}, MaxVerts)}

MtlEntities ==
    {MtlString(tag, s) : tag \in MtlStringVariants, s \in Strs}
    \cup {MtlColor(tag, r, g, b) : tag \in MtlColorVariants, r \in F64Pool, g \in F64Pool, b \in F64Pool}
    \cup {MtlValue(tag, v) : tag \in MtlValueVariants, v \in F64Pool}
    \cup {Illum(m) : m \in IllumCodes}

\* a line: the leading token, then the fields, single-space separated
MkLine(lead, fields) == Join(<<lead>> \o fields, SP)

NumVocab ==
    {<<"1", ".", "0">>, <<"2", ".", "0">>, <<"3", ".", "0">>, <<"4", ".", "0">>, <<"1", ".", "x">>}

FaceVocab ==
    {<<"1", "/", "2", "/", "3">>, <<"4", "/", "5", "/", "6">>, <<"7", "/", "8", "/", "9">>,
     <<"1", "/", "/", "3">>, <<"4", "/", "/", "6">>, <<"7", "/", "/", "9">>,
     <<"1">>, <<"1", "/", "2">>, <<"/", "2">>, <<"1", "/", "2", "/", "3", "/", "4">>}

IllumVocab == {<<"2">>, <<"9", "9">>, <<"1", "0">>, <<"2", ".", "0">>, <<"-", "1">>}

\* leading tokens no table holds
UnknownLeads == {<<"V">>, <<"v", "x">>}

ObjNumLeads ==
    {ObjToken(tag) : tag \in {"Comment", "Vertex", "VertexNormal", "VertexTexture"}}
    \cup UnknownLeads

ObjFaceLeads == {ObjToken("Face"), ObjToken("Line"), <<"p">>}

MtlNumLeads ==
    {MtlToken(tag) : tag \in {"MaterialName", "AmbientColor", "SpecularHighlights",
                              "TextureMapDiffuse"}}
    \cup {<<"K", "A">>}

\* lines with odd spacing, and the empty ones
OddLines ==
    {<<>>, <<" ">>, <<"\n">>,
     <<" ", "v", " ", " ", "1", "\t", "2", " ", "3", "\n">>,
     <<"#", " ", "a", " ", " ", "a">>,
     <<"v", "n", " ", "1", " ", "2", " ", "3", "\n", "x">>}

ObjLines ==
    {MkLine(lead, fs) : lead \in ObjNumLeads, fs \in SeqsUpTo(NumVocab, MaxFields)}
    \cup {MkLine(lead, fs) : lead \in ObjFaceLeads, fs \in SeqsUpTo(FaceVocab, MaxFaceFields)}
    \cup OddLines

MtlLines ==
    {MkLine(lead, fs) : lead \in MtlNumLeads, fs \in SeqsUpTo(NumVocab, MaxFields)}
    \cup {MkLine(lead, fs) : lead \in {MtlToken("Illum"), <<"p">>}, fs \in SeqsUpTo(IllumVocab, MaxFields)}
    \cup OddLines

(* ------------------------------------------------------------------ *)
(* State machine                                                       *)
(* ------------------------------------------------------------------ *)

\* no call under way: the caller holds no result
Idle == [op |-> "idle"]

Init ==
    /\ res = Idle
    /\ sink = <<>>
    /\ log = <<>>
    /\ clean = TRUE

\* Entity::token on an OBJ entity
Token ==
    /\ res = Idle
    /\ \E e \in ObjEntities :
          res' = [op |-> "token", e |-> e, tok |-> token(e)]
    /\ UNCHANGED <<sink, log, clean>>

\* Entity::to_string; the inner write fails after n bytes, or not at all
ToString ==
    /\ res = Idle
    /\ \E e \in ObjEntities : \E n \in 0..Len(ObjFormat(e)) :
          LET r == to_string(e, n)
          IN res' = [op |-> "to_string", e |-> e, fw |-> r.fw, ret |-> r.ret]
    /\ UNCHANGED <<sink, log, clean>>

\* Entity::from on a line of text, then to_string on the entity it returned;
\* r is what the read_line inside from returned before the unwrap
From ==
    /\ res = Idle
    /\ \E input \in ObjLines :
          LET out == from(input)
          IN res' = [op |-> "from", input |-> input, r |-> ObjLex(input), out |-> out,
                     text |-> IF out.ok THEN to_string(out.v, Len(ObjFormat(out.v))).ret.text
                              ELSE <<>>]
    /\ UNCHANGED <<sink, log, clean>>

\* Entity::from(e.to_string())
RoundTrip ==
    /\ res = Idle
    /\ \E e \in ObjEntities :
          LET text == to_string(e, Len(ObjFormat(e))).ret.text
          IN res' = [op |-> "roundtrip", e |-> e, text |-> text,
                     out |-> from(text)]
    /\ UNCHANGED <<sink, log, clean>>

\* mtl Writer::write of one entity on an empty sink that rejects after n bytes,
\* or not at all
MtlWriteOnce ==
    /\ res = Idle
    /\ \E e \in MtlEntities : \E n \in 0..Len(MtlFormat(e)) :
          LET r == MtlWrite(<<>>, e, n)
          IN res' = [op |-> "mtl_write", e |-> e, n |-> n, buf |-> r.buf, ret |-> r.ret]
    /\ UNCHANGED <<sink, log, clean>>

\* the mtl lexer on what the mtl writer wrote for e
MtlRoundTrip ==
    /\ res = Idle
    /\ \E e \in MtlEntities :
          LET text == MtlWrite(<<>>, e, Len(MtlFormat(e))).buf
          IN res' = [op |-> "mtl_roundtrip", e |-> e, text |-> text,
                     out |-> MtlLex(text)]
    /\ UNCHANGED <<sink, log, clean>>

\* the mtl lexer on a line of text, and the entity written back
MtlReadLine ==
    /\ res = Idle
    /\ \E input \in MtlLines :
          LET r == MtlLex(input)
          IN res' = [op |-> "mtl_read_line", input |-> input, r |-> r,
                     text |-> IF r.ok THEN MtlWrite(<<>>, r.v, Len(MtlFormat(r.v))).buf
                              ELSE <<>>]
    /\ UNCHANGED <<sink, log, clean>>

\* the caller drops the result it holds; the conversions keep no state
Return ==
    /\ res # Idle
    /\ res' = Idle
    /\ UNCHANGED <<sink, log, clean>>

Next ==
    \/ Token
    \/ ToString
    \/ From
    \/ RoundTrip
    \/ MtlWriteOnce
    \/ MtlRoundTrip
    \/ MtlReadLine
    \/ Return

Spec == Init /\ [][Next]_vars

\* the entities written to the one sink: every variant once with a short
\* payload, and a few more payloads
SinkEntities ==
    {MtlString(tag, <<"a">>) : tag \in MtlStringVariants}
    \cup {MtlColor(tag, Fin(1, 0), Fin(2, 0), Fin(3, 0)) : tag \in MtlColorVariants}
    \cup {MtlValue(tag, Fin(1, 0)) : tag \in MtlValueVariants}
    \cup {Illum(2), MtlString("Comment", <<>>), MtlString("Comment", <<" ", "a">>),
          MtlValue("Dissolve", Fin(-5, 1)), MtlValue("Dissolve", NaN)}

\* mtl Writer::write on the one append-only sink, which rejects after n bytes
\* or takes them all. A sink that has rejected a write is followed no further.
SinkWrite ==
    /\ clean
    /\ \E e \in SinkEntities : \E n \in 0..Len(MtlFormat(e)) :
          LET r == MtlWrite(sink, e, n)
          IN /\ Len(sink) + Len(MtlFormat(e)) <= MaxSinkLen
             /\ sink' = r.buf
             /\ log' = IF r.ret.ok THEN Append(log, e) ELSE log
             /\ clean' = r.ret.ok
             /\ res' = [op |-> "sink_write", e |-> e, ret |-> r.ret]

SinkNext == SinkWrite

SinkSpec == Init /\ [][SinkNext]_vars

(* ------------------------------------------------------------------ *)
(* Reference texts and tables of the format grammar                    *)
(* ------------------------------------------------------------------ *)

\* the geometry tokens of the format grammar
ObjTokens ==
    {<<"#">>, <<"o">>, <<"g">>, <<"s">>, <<"m", "t", "l", "l", "i", "b">>,
     <<"u", "s", "e", "m", "t", "l">>, <<"v">>, <<"v", "n">>, <<"v", "t">>, <<"f">>, <<"l">>}

\* the material tokens of the format grammar
MtlTokens ==
    {<<"#">>, <<"n", "e", "w", "m", "t", "l">>, <<"K", "a">>, <<"K", "d">>, <<"K", "s">>,
     <<"N", "s">>, <<"N", "i">>, <<"d">>, <<"T", "r">>, <<"i", "l", "l", "u", "m">>,
     <<"m", "a", "p", "_", "K", "a">>, <<"m", "a", "p", "_", "K", "d">>, <<"T", "f">>,
     <<"m", "a", "p", "_", "K", "s">>, <<"m", "a", "p", "_", "N", "s">>,
     <<"m", "a", "p", "_", "d">>, <<"b", "u", "m", "p">>, <<"m", "a", "p", "_", "b", "u", "m", "p">>,
     <<"d", "i", "s", "p">>, <<"d", "e", "c", "a", "l">>, <<"r", "e", "f", "l">>}

\* text begins with tok and one space, and with no other token of the table
BeginsWithToken(text, tok, table) ==
    /\ IsPrefix(tok \o SP, text)
    /\ \A other \in table : IsPrefix(other \o SP, text) => other = tok

\* the tokens of the line a lexer was given
InputTokens(input) == SplitWhitespace(FirstLine(input))

F1 == <<"1", ".", "0">>
F2 == <<"2", ".", "0">>
F3 == <<"3", ".", "0">>
F4 == <<"4", ".", "0">>

\* f 1/2/3 4/5/6 7/8/9
FaceFullLine ==
    MkLine(<<"f">>, <<<<"1", "/", "2", "/", "3">>, <<"4", "/", "5", "/", "6">>,
                      <<"7", "/", "8", "/", "9">>>>)

\* f 1//3 4//6 7//9
FaceSkipLine ==
    MkLine(<<"f">>, <<<<"1", "/", "/", "3">>, <<"4", "/", "/", "6">>, <<"7", "/", "/", "9">>>>)

\* v 1.0 2.0 3.0 4.0
VertexWLine == MkLine(<<"v">>, <<F1, F2, F3, F4>>)

\* illum 2 and illum 99
Illum2Line == MkLine(<<"i", "l", "l", "u", "m">>, <<<<"2">>>>)
Illum99Line == MkLine(<<"i", "l", "l", "u", "m">>, <<<<"9", "9">>>>)

\* the fields of an mtl entity in declaration order, each as text
FieldTexts(e) ==
    CASE e.tag \in MtlStringVariants -> <<e.text>>
      [] e.tag \in MtlColorVariants -> <<F64Display(e.r), F64Display(e.g), F64Display(e.b)>>
      [] e.tag \in MtlValueVariants -> <<F64Display(e.value)>>
      [] e.tag = "Illum" -> <<I64Display(e.mode)>>

\* the line of an mtl entity: token, then fields, single-space separated
ExpectedLine(e) == Join(<<MtlToken(e.tag)>> \o FieldTexts(e), SP)

(* ------------------------------------------------------------------ *)
(* Claims                                                              *)
(* ------------------------------------------------------------------ *)

\* C1 (stated as claimed): lexing the text written for any entity, of either
\* family, succeeds and yields an entity equal to the one written.
C1_RoundTripLaw ==
    /\ res.op = "roundtrip" => res.out.ok /\ EntityEq(res.out.v, res.e)
    /\ res.op = "mtl_roundtrip" => res.out.ok /\ MtlEntityEq(res.out.v, res.e)

\* C2 (stated as claimed): Entity::from never panics; on a line the lexer
\* rejects it hands the lexer's failure to its caller.
C2_FromPropagatesFailure ==
    res.op = "from" /\ ~res.r.ok => res.out.outcome = "failed" /\ res.out.why = res.r.why

C4_TokenFidelity ==
    /\ res.op = "to_string" /\ res.fw.ok =>
          BeginsWithToken(res.ret.text, token(res.e), ObjTokens)
    /\ res.op = "mtl_write" /\ res.ret.ok =>
          BeginsWithToken(res.buf, MtlToken(res.e.tag), MtlTokens)

C4_Witness ==
    /\ res.op = "mtl_write"
    /\ res.ret.ok
    /\ res.e.tag = "TextureMapDiffuse"
    /\ IsPrefix(<<"m", "a", "p", "_", "K", "d", " ">>, res.buf)

\* C5: Entity::token gives every OBJ variant one token, no two variants the
\* same one, and the tokens are exactly the eleven of the grammar.
C5_TokenTotalInjective ==
    /\ res.op = "token" =>
          /\ res.tok \in ObjTokens
          /\ \A tag \in ObjVariants : ObjToken(tag) = res.tok => tag = res.e.tag
    /\ {ObjToken(tag) : tag \in ObjVariants} = ObjTokens
    /\ Cardinality(ObjVariants) = 11

C5_Witness == res.op = "token" /\ res.e.tag = "VertexNormal" /\ res.tok = <<"v", "n">>

\* C6 (stated as claimed): f 1/2/3 4/5/6 7/8/9 lexes to three FaceVertex with
\* vertex, texture and normal set; f 1//3 4//6 7//9 lexes to FaceVertex with
\* texture absent and normal 3, 6, 9, and is written back unchanged.
C6_FaceSubFields ==
    /\ res.op = "from" /\ res.input = FaceFullLine =>
          /\ res.r.ok /\ res.r.v.tag = "Face" /\ Len(res.r.v.vertices) = 3
          /\ \A i \in 1..3 : res.r.v.vertices[i].normal.some /\ res.r.v.vertices[i].texture.some
    /\ res.op = "from" /\ res.input = FaceSkipLine =>
          /\ res.r.ok /\ res.r.v.tag = "Face" /\ Len(res.r.v.vertices) = 3
          /\ \A i \in 1..3 :
                /\ ~res.r.v.vertices[i].texture.some
                /\ res.r.v.vertices[i].normal = SomeI(3 * i)
          /\ res.text = FaceSkipLine

\* C7: a line whose first token is not a token of the grammar fails to lex
\* with the unknown-entity error; no entity comes out of it.
C7_UnknownTokenRejected ==
    /\ res.op = "from" /\ InputTokens(res.input) # <<>>
          /\ Head(InputTokens(res.input)) \notin ObjTokens =>
          ~res.r.ok /\ res.r.why = "unknown entity" /\ ~res.out.ok
    /\ res.op = "mtl_read_line" /\ InputTokens(res.input) # <<>>
          /\ Head(InputTokens(res.input)) \notin MtlTokens =>
          ~res.r.ok /\ res.r.why = "unknown entity"

C7_Witness ==
    /\ res.op = "from"
    /\ res.input = MkLine(<<"v", "x">>, <<F1, F2, F3>>)
    /\ ~res.r.ok
    /\ res.r.why = "unknown entity"

\* C8: a v line with fewer than three fields fails, a vn line with any count
\* of fields but three fails, v 1.0 2.0 3.0 4.0 lexes to x, y, z = 1, 2, 3 with
\* w = 4, and a v line of three fields lexes with w absent.
C8_ArityEnforced ==
    res.op = "from" /\ InputTokens(res.input) # <<>> =>
       LET ts == InputTokens(res.input)
           n == Len(ts) - 1
       IN /\ Head(ts) = <<"v">> /\ n < 3 => ~res.r.ok
          /\ Head(ts) = <<"v", "n">> /\ n # 3 => ~res.r.ok
          /\ res.input = VertexWLine =>
                /\ res.r.ok
                /\ res.r.v = Vertex(Fin(1, 0), Fin(2, 0), Fin(3, 0), SomeF(Fin(4, 0)))
          /\ Head(ts) = <<"v">> /\ n = 3 /\ res.r.ok => ~res.r.v.w.some

C8_Witness ==
    /\ res.op = "from"
    /\ res.input = VertexWLine
    /\ res.r.ok
    /\ res.r.v.w = SomeF(Fin(4, 0))

\* C9: writing Illum{mode} emits "illum " and the integer code of the mode;
\* illum 2 lexes to the mode of code 2 and is written back as illum 2; illum
\* with a code outside the recognised ones fails to lex.
C9_IllumRoundTrip ==
    /\ res.op = "mtl_write" /\ res.ret.ok /\ res.e.tag = "Illum" =>
          res.buf = <<"i", "l", "l", "u", "m", " ">> \o I64Display(res.e.mode)
    /\ res.op = "mtl_read_line" /\ res.input = Illum2Line =>
          res.r.ok /\ res.r.v = Illum(2) /\ res.text = Illum2Line
    /\ res.op = "mtl_read_line" /\ res.input = Illum99Line => ~res.r.ok
    /\ res.op = "mtl_read_line" /\ res.r.ok /\ res.r.v.tag = "Illum" =>
          res.r.v.mode \in IllumCodes

C9_Witness ==
    /\ res.op = "mtl_read_line"
    /\ res.input = Illum2Line
    /\ res.r.ok
    /\ res.r.v.mode = 2
    /\ res.text = <<"i", "l", "l", "u", "m", " ", "2">>

\* C10: while every write on the one sink has succeeded, the sink holds the
\* lines of the written entities, in call order, and nothing else: no byte
\* before, between or after them.
C10_SinkIsConcatenation ==
    clean => sink = Concat([i \in 1..Len(log) |-> ExpectedLine(log[i])])

C10_Witness ==
    /\ clean
    /\ Len(log) = 3
    /\ log[1].tag = "Comment"
    /\ log[2].tag = "Dissolve"
    /\ log[3].tag = "SpecularHighlights"
    /\ sink = <<"#", " ", "a", "d", " ", "1", "N", "s", " ", "1">>

====
